---- MODULE Spec2Model ----
(***************************************************************************)
(* The order repository of src/src/data/orders.js on one shared database   *)
(* handle.                                                                 *)
(*                                                                         *)
(* Every statement goes through db.run / db.get / db.all and is awaited,   *)
(* except the per-detail writes of createOrder / updateOrder, which are    *)
(* dispatched together by details.map and awaited with Promise.all.  One   *)
(* step of the model is the completion of one statement: the engine runs   *)
(* it, the promise settles, and the awaiting function runs on to its next  *)
(* await (dispatching the next statements) in the same turn.  Statements   *)
(* that are in flight together complete in any order.                      *)
(*                                                                         *)
(* The handle is one connection (node-sqlite: run resolves to {lastID}):   *)
(* it holds at most one transaction, BEGIN inside a transaction and        *)
(* COMMIT / ROLLBACK outside one are rejected, a write outside a           *)
(* transaction is committed at once, and every statement sent through      *)
(* db.run may be rejected by the driver, leaving the database unchanged.   *)
(*                                                                         *)
(* Numbers: discount is held in percent (10 for 0.1) and subtotal in       *)
(* hundredths (2300 for 23).  SQL NULL is the string "NULL" in a text      *)
(* column and the empty sequence in a numeric one; db.get yields the       *)
(* sequence of at most one row (<<>> for undefined).  The field `by' of a  *)
(* stored row is history: the call whose write last produced the row.      *)
(***************************************************************************)
EXTENDS Integers, Sequences, FiniteSets, TLC

VARIABLES
  db,       \* the tables as seen through the handle: [orders, details]
  txn,      \* the handle's transaction: [open, owner, saved]
  lastID,   \* the last CustomerOrder id the engine generated
  op,       \* per call: the function called
  arg,      \* per call: its arguments [id, data, details]
  pc,       \* per call: the await it is suspended at
  pend,     \* per call: detail statements dispatched and not yet complete
  orderid,  \* per call: createOrder's `orderid'
  err,      \* per call: the first error thrown in the call
  raised,   \* per call: the error the call rejected with
  ret,      \* per call: <<value returned>>; for a fetch, <<order>> after getOrder
  closes,   \* per call (history): COMMIT / ROLLBACK statements of the call that resolved
  issued,   \* per call (history): the statements the call dispatched, in order
  snap,     \* per call (history): the tables at getOrderWithDetails' first query
  win,      \* per call (history): what changed the tables between its two queries
  qres      \* the last listing / single-order query made: [fn, id, opts, customerId, rows]

vars == <<db, txn, lastID, op, arg, pc, pend, orderid, err, raised, ret,
          closes, issued, snap, win, qres>>

callVars == <<op, arg, pc, pend, orderid, err, raised, ret, closes, issued, snap, win>>

-----------------------------------------------------------------------------
(* Bounds and inputs *)

MaxDetails == 2

\* The query specification: order ids 1..MaxRows, pages 1..MaxPage of at
\* most MaxPerPage rows.
MaxRows == 3
MaxPage == 3
MaxPerPage == 2

Calls == {"a", "b"}

NULL == "NULL"

\* Customer, Employee and Product are only read (left joins).
Customer ==
  { [id |-> "ALFKI", contactname |-> "Maria Anders"],
    [id |-> "BONAP", contactname |-> "Laurence Lebihan"] }

Employee ==
  { [id |-> "E1", firstname |-> "Nancy", lastname |-> "Davolio"],
    [id |-> "E2", firstname |-> "Andrew", lastname |-> "Fuller"] }

Product ==
  { [id |-> 1, productname |-> "Chai"],
    [id |-> 2, productname |-> "Chang"] }

\* The k-th detail entry a caller supplies; entries 1 and 2 are
\* (unitprice=10, qty=2, discount=0.1) and (unitprice=5, qty=1, discount=0).
DetailInput(k) ==
  [ productid |-> k,
    unitprice |-> IF k % 2 = 1 THEN 10 ELSE 5,
    quantity  |-> IF k % 2 = 1 THEN 2 ELSE 1,
    discount  |-> IF k % 2 = 1 THEN 10 ELSE 0 ]

\* Header data a caller supplies: existing customer and employee; ids that
\* match no Customer / Employee row; and a header carrying its own `id'.
HeaderInputs ==
  { [employeeid |-> "E2", customerid |-> "BONAP", shipcity |-> "Vilnius"],
    [employeeid |-> "E9", customerid |-> "NOONE", shipcity |-> "Kaunas"],
    [employeeid |-> "E2", customerid |-> "BONAP", shipcity |-> "Vilnius", id |-> 7] }

\* The order that exists before any call, and the ids calls are aimed at.
TargetIds == {1}

-----------------------------------------------------------------------------
(* Helpers *)

Range(s) == {s[i] : i \in DOMAIN s}

\* Object spread {...a, ...b}: the later object's properties win.
Spread(a, b) ==
  [k \in DOMAIN a \cup DOMAIN b |-> IF k \in DOMAIN b THEN b[k] ELSE a[k]]

\* A property read of a plain object: undefined binds as NULL.
Field(obj, k) == IF k \in DOMAIN obj THEN obj[k] ELSE NULL

RECURSIVE SumSeq(_)
SumSeq(s) == IF s = <<>> THEN 0 ELSE Head(s) + SumSeq(Tail(s))

-----------------------------------------------------------------------------
(* The statements of orders.js *)

\* (mutation of DetailId: the count started at 0)
DetailId_fromZero(oid, n) == ToString(oid) \o "/" \o ToString(n - 1)

\* `${orderid}/${orderDetailsCount++}`, orderDetailsCount starting at 1
DetailId(oid, n) == ToString(oid) \o "/" \o ToString(n)

\* INSERT INTO CustomerOrder (employeeid, customerid, shipcity, ...) VALUES (...)
InsertOrder(d, id, order, c) ==
  [d EXCEPT !.orders = @ \cup
     { [ id         |-> id,
         employeeid |-> Field(order, "employeeid"),
         customerid |-> Field(order, "customerid"),
         shipcity   |-> Field(order, "shipcity"),
         by         |-> c ] }]

\* INSERT INTO OrderDetail (id, orderid, productid, unitprice, quantity, discount)
InsertDetail(d, oid, n, detail, c) ==
  [d EXCEPT !.details = Append(@,
     [ id        |-> DetailId(oid, n),
       orderid   |-> oid,
       productid |-> detail.productid,
       unitprice |-> detail.unitprice,
       quantity  |-> detail.quantity,
       discount  |-> detail.discount,
       by        |-> c ])]

\* (mutation of UpdateOrderStmt: customerid left out of the SET list)
UpdateOrderStmt_keepsCustomer(d, id, data, c) ==
  [d EXCEPT !.orders =
     { IF r.id = id
         THEN [ id         |-> r.id,
                employeeid |-> Field(data, "employeeid"),
                customerid |-> r.customerid,
                shipcity   |-> Field(data, "shipcity"),
                by         |-> c ]
         ELSE r : r \in @ }]

\* UPDATE CustomerOrder SET employeeid = $1, customerid = $2, ... WHERE id = $12
UpdateOrderStmt(d, id, data, c) ==
  [d EXCEPT !.orders =
     { IF r.id = id
         THEN [ id         |-> r.id,
                employeeid |-> Field(data, "employeeid"),
                customerid |-> Field(data, "customerid"),
                shipcity   |-> Field(data, "shipcity"),
                by         |-> c ]
         ELSE r : r \in @ }]

\* UPDATE OrderDetail SET productid = $1, ... WHERE id = $5
UpdateDetail(d, detail, c) ==
  [d EXCEPT !.details =
     [i \in DOMAIN @ |->
        IF @[i].id = detail.id
          THEN [@[i] EXCEPT !.productid = detail.productid,
                            !.unitprice = detail.unitprice,
                            !.quantity  = detail.quantity,
                            !.discount  = detail.discount,
                            !.by        = c]
          ELSE @[i]]]

\* (mutation of DeleteOrderStmt: a delete that cascades to the line items)
DeleteOrderStmt_cascade(d, id) ==
  [orders  |-> {r \in d.orders : r.id # id},
   details |-> SelectSeq(d.details, LAMBDA r : r.orderid # id)]

\* DELETE FROM CustomerOrder WHERE id = $1
DeleteOrderStmt(d, id) ==
  [d EXCEPT !.orders = {r \in @ : r.id # id}]

-----------------------------------------------------------------------------
(* The queries of orders.js *)

\* LEFT JOIN t ON key = t.id: the matching row of t, if any
Joined(T, key) == {t \in T : t.id = key}

\* c.id AS customerid / c.contactname AS customername
JoinedField(T, key, f) ==
  IF Joined(T, key) = {} THEN NULL ELSE (CHOOSE t \in Joined(T, key) : TRUE)[f]

\* e.firstname || ' ' || e.lastname AS employeename
EmployeeName(key) ==
  IF Joined(Employee, key) = {} THEN NULL
  ELSE LET e == CHOOSE t \in Joined(Employee, key) : TRUE
       IN  e.firstname \o " " \o e.lastname

\* (mutation of LineTotal: the discount left out)
LineTotal_noDiscount(r) == r.unitprice * r.quantity * 100

\* unitprice * quantity * (1 - discount), in hundredths
LineTotal(r) == r.unitprice * r.quantity * (100 - r.discount)

\* (SELECT sum(unitprice * quantity * (1 - discount)) FROM OrderDetail
\*  WHERE orderid = ${id} GROUP BY orderid): no group, no row, NULL
Subtotal(d, id) ==
  LET rows == SelectSeq(d.details, LAMBDA r : r.orderid = id)
  IN  IF rows = <<>> THEN <<>>
      ELSE << SumSeq([i \in DOMAIN rows |-> LineTotal(rows[i])]) >>

getOrder(d, id) ==
  LET found == {o \in d.orders : o.id = id}
  IN  IF found = {} THEN <<>>
      ELSE LET o == CHOOSE r \in found : TRUE
           IN  << [ id           |-> o.id,
                    customerid   |-> JoinedField(Customer, o.customerid, "id"),
                    employeeid   |-> JoinedField(Employee, o.employeeid, "id"),
                    customername |-> JoinedField(Customer, o.customerid, "contactname"),
                    employeename |-> EmployeeName(o.employeeid),
                    subtotal     |-> Subtotal(d, id) ] >>

getOrderDetails(d, id) ==
  LET rows == SelectSeq(d.details, LAMBDA r : r.orderid = id)
  IN  [i \in DOMAIN rows |->
         [ id          |-> rows[i].id,
           price       |-> rows[i].unitprice * rows[i].quantity,
           productname |-> JoinedField(Product, rows[i].productid, "productname"),
           unitprice   |-> rows[i].unitprice,
           quantity    |-> rows[i].quantity,
           discount    |-> rows[i].discount ]]

DEFAULT_ORDER_COLLECTION_OPTIONS ==
  [order |-> "asc", page |-> 1, perPage |-> 20, sort |-> "id"]

\* The engine's order on text values (NULL first).
Collation == <<"NULL", "ALFKI", "BONAP", "NOONE">>

SortKey(r, sort) ==
  IF sort = "id" THEN r.id
  ELSE CHOOSE i \in DOMAIN Collation : Collation[i] = r[sort]

\* ORDER BY o.${sort} ${order}; rows with equal keys stay in id order
Precedes(r, s, sort, order) ==
  LET kr == SortKey(r, sort)
      ks == SortKey(s, sort)
  IN  \/ IF order = "desc" THEN kr > ks ELSE kr < ks
      \/ kr = ks /\ r.id < s.id

RECURSIVE OrderBy(_, _, _)
OrderBy(rows, sort, order) ==
  IF rows = {} THEN <<>>
  ELSE LET first == CHOOSE r \in rows :
                      \A s \in rows \ {r} : Precedes(r, s, sort, order)
       IN  <<first>> \o OrderBy(rows \ {first}, sort, order)

\* LIMIT n (a negative n is no limit)
Limit(s, n) == IF n < 0 \/ n >= Len(s) THEN s ELSE SubSeq(s, 1, n)

\* OFFSET n (a negative n skips nothing)
Offset(s, n) ==
  IF n <= 0 THEN s ELSE IF n >= Len(s) THEN <<>> ELSE SubSeq(s, n + 1, Len(s))

\* (mutation of PageOffset: the page taken as zero-indexed)
PageOffset_zeroIndexed(page, perPage) == page * perPage

\* ${(page - 1) * perPage}
PageOffset(page, perPage) == (page - 1) * perPage

\* The rows the listing selects, before LIMIT / OFFSET
Listing(d, sort, order, customerId) ==
  LET rows == IF customerId # NULL
                THEN {o \in d.orders : o.customerid = customerId}
                ELSE d.orders
      sorted == OrderBy(rows, sort, order)
  IN  [i \in DOMAIN sorted |->
         [ id           |-> sorted[i].id,
           customerid   |-> sorted[i].customerid,
           employeeid   |-> sorted[i].employeeid,
           shipcity     |-> sorted[i].shipcity,
           customername |-> JoinedField(Customer, sorted[i].customerid, "contactname"),
           employeename |-> EmployeeName(sorted[i].employeeid) ]]

getAllOrders(d, opts, customerId) ==
  LET options == Spread(DEFAULT_ORDER_COLLECTION_OPTIONS, opts)
  IN  Limit(Offset(Listing(d, options.sort, options.order, customerId),
                   PageOffset(options.page, options.perPage)),
            options.perPage)

-----------------------------------------------------------------------------
(* The database handle *)

EmptyDb == [orders |-> {}, details |-> <<>>]

NoTxn == [open |-> FALSE, owner |-> "none", saved |-> EmptyDb]

\* BEGIN
BeginTxn(c) == [open |-> TRUE, owner |-> c, saved |-> db]

\* What is committed: inside a transaction, the tables as BEGIN found them.
Committed == IF txn.open THEN txn.saved ELSE db

\* The order createOrder(o, [d1, d2]) leaves behind.
InitialDb ==
  InsertDetail(
    InsertDetail(
      InsertOrder(EmptyDb, 1,
                  [employeeid |-> "E1", customerid |-> "ALFKI", shipcity |-> "Kaunas"],
                  "init"),
      1, 1, DetailInput(1), "init"),
    1, 2, DetailInput(2), "init")

\* History: a statement that may change the tables ran between the two
\* queries of every getOrderWithDetails that is awaiting its second one.
Noted(kind) ==
  win' = [c \in Calls |-> IF pc[c] = "getOrderDetails" THEN win[c] \cup {kind} ELSE win[c]]

-----------------------------------------------------------------------------
(* Calls *)

NoArg == [id |-> 0, data |-> <<>>, details |-> <<>>]

\* details of a createOrder call: n entries
CreateDetails(n) == [k \in 1..n |-> DetailInput(k)]

\* details of an updateOrder call: n entries, the k-th aimed at "<id>/<k>"
UpdateDetails(id, n) ==
  [k \in 1..n |->
     [ id        |-> DetailId(id, k),
       productid |-> k,
       unitprice |-> 7,
       quantity  |-> k,
       discount  |-> 0 ]]

Init ==
  /\ db = InitialDb
  /\ txn = NoTxn
  /\ lastID = 1
  /\ op = [c \in Calls |-> "none"]
  /\ arg = [c \in Calls |-> NoArg]
  /\ pc = [c \in Calls |-> "idle"]
  /\ pend = [c \in Calls |-> {}]
  /\ orderid = [c \in Calls |-> 0]
  /\ err = [c \in Calls |-> "none"]
  /\ raised = [c \in Calls |-> "none"]
  /\ ret = [c \in Calls |-> <<>>]
  /\ closes = [c \in Calls |-> 0]
  /\ issued = [c \in Calls |-> <<>>]
  /\ snap = [c \in Calls |-> EmptyDb]
  /\ win = [c \in Calls |-> {}]
  /\ qres = [fn |-> "none"]

\* createOrder(order, details): getDb, then db.run(BEGIN) is in flight
CallCreateOrder(c) ==
  /\ pc[c] = "idle"
  /\ \E order \in HeaderInputs, n \in 0..MaxDetails :
       arg' = [arg EXCEPT ![c] = [id |-> 0, data |-> order, details |-> CreateDetails(n)]]
  /\ op' = [op EXCEPT ![c] = "createOrder"]
  /\ pc' = [pc EXCEPT ![c] = "BEGIN"]
  /\ issued' = [issued EXCEPT ![c] = <<"BEGIN">>]
  /\ UNCHANGED <<db, txn, lastID, pend, orderid, err, raised, ret, closes, snap, win, qres>>

\* updateOrder(id, data, details): getDb, then db.run(BEGIN) is in flight
CallUpdateOrder(c) ==
  /\ pc[c] = "idle"
  /\ \E id \in TargetIds, data \in HeaderInputs, n \in 0..MaxDetails :
       arg' = [arg EXCEPT ![c] = [id |-> id, data |-> data, details |-> UpdateDetails(id, n)]]
  /\ op' = [op EXCEPT ![c] = "updateOrder"]
  /\ pc' = [pc EXCEPT ![c] = "BEGIN"]
  /\ issued' = [issued EXCEPT ![c] = <<"BEGIN">>]
  /\ UNCHANGED <<db, txn, lastID, pend, orderid, err, raised, ret, closes, snap, win, qres>>

\* deleteOrder(id): the DELETE is in flight
CallDeleteOrder(c) ==
  /\ pc[c] = "idle"
  /\ \E id \in TargetIds :
       arg' = [arg EXCEPT ![c] = [id |-> id, data |-> <<>>, details |-> <<>>]]
  /\ op' = [op EXCEPT ![c] = "deleteOrder"]
  /\ pc' = [pc EXCEPT ![c] = "DELETE"]
  /\ issued' = [issued EXCEPT ![c] = <<"DELETE">>]
  /\ UNCHANGED <<db, txn, lastID, pend, orderid, err, raised, ret, closes, snap, win, qres>>

\* getOrderWithDetails(id): getOrder's query is in flight
CallGetOrderWithDetails(c) ==
  /\ pc[c] = "idle"
  /\ \E id \in TargetIds :
       arg' = [arg EXCEPT ![c] = [id |-> id, data |-> <<>>, details |-> <<>>]]
  /\ op' = [op EXCEPT ![c] = "getOrderWithDetails"]
  /\ pc' = [pc EXCEPT ![c] = "getOrder"]
  /\ issued' = [issued EXCEPT ![c] = <<"getOrder">>]
  /\ UNCHANGED <<db, txn, lastID, pend, orderid, err, raised, ret, closes, snap, win, qres>>

\* BEGIN resolves: the try block is entered and the header write dispatched
BeginResolves(c) ==
  /\ pc[c] = "BEGIN"
  /\ ~txn.open
  /\ txn' = BeginTxn(c)
  /\ pc' = [pc EXCEPT ![c] = "HEADER"]
  /\ issued' = [issued EXCEPT ![c] = Append(@, "HEADER")]
  /\ UNCHANGED <<db, lastID, op, arg, pend, orderid, err, raised, ret, closes, snap, win, qres>>

\* BEGIN rejects (it is outside the try block): the call rejects at once
BeginRejects(c) ==
  /\ pc[c] = "BEGIN"
  /\ err' = [err EXCEPT ![c] = "BEGIN rejected"]
  /\ raised' = [raised EXCEPT ![c] = "BEGIN rejected"]
  /\ pc' = [pc EXCEPT ![c] = "raised"]
  /\ UNCHANGED <<db, txn, lastID, op, arg, pend, orderid, ret, closes, issued, snap, win, qres>>

\* details.map(...) dispatches every detail write; Promise.all of none
\* resolves at once and COMMIT is dispatched
DispatchDetails(c) ==
  LET n == Len(arg[c].details)
  IN  /\ pend' = [pend EXCEPT ![c] = 1..n]
      /\ pc' = [pc EXCEPT ![c] = IF n = 0 THEN "COMMIT" ELSE "DETAILS"]
      /\ issued' = [issued EXCEPT ![c] =
                      @ \o [k \in 1..n |-> "DETAIL"] \o (IF n = 0 THEN <<"COMMIT">> ELSE <<>>)]

\* catch (e): ROLLBACK is dispatched
Catch(c, e) ==
  /\ err' = [err EXCEPT ![c] = e]
  /\ pc' = [pc EXCEPT ![c] = "ROLLBACK"]
  /\ issued' = [issued EXCEPT ![c] = Append(@, "ROLLBACK")]

\* createOrder's INSERT INTO CustomerOrder resolves with a lastID
InsertHeaderResolves(c) ==
  /\ pc[c] = "HEADER" /\ op[c] = "createOrder"
  /\ lastID' = lastID + 1
  /\ db' = InsertOrder(db, lastID + 1, arg[c].data, c)
  /\ orderid' = [orderid EXCEPT ![c] = lastID + 1]
  /\ DispatchDetails(c)
  /\ Noted("WRITE")
  /\ UNCHANGED <<txn, op, arg, err, raised, ret, closes, snap, qres>>

\* createOrder's INSERT INTO CustomerOrder resolves with no result / no
\* lastID: `Order insertion did not return an id' is thrown
InsertHeaderNoId(c) ==
  /\ pc[c] = "HEADER" /\ op[c] = "createOrder"
  /\ lastID' = lastID + 1
  /\ db' = InsertOrder(db, lastID + 1, arg[c].data, c)
  /\ Catch(c, "Order insertion did not return an id")
  /\ Noted("WRITE")
  /\ UNCHANGED <<txn, op, arg, pend, orderid, raised, ret, closes, snap, qres>>

\* updateOrder's UPDATE CustomerOrder resolves
UpdateHeaderResolves(c) ==
  /\ pc[c] = "HEADER" /\ op[c] = "updateOrder"
  /\ db' = UpdateOrderStmt(db, arg[c].id, arg[c].data, c)
  /\ DispatchDetails(c)
  /\ Noted("WRITE")
  /\ UNCHANGED <<txn, lastID, op, arg, orderid, err, raised, ret, closes, snap, qres>>

\* the header write rejects
HeaderRejects(c) ==
  /\ pc[c] = "HEADER"
  /\ Catch(c, "header write rejected")
  /\ UNCHANGED <<db, txn, lastID, op, arg, pend, orderid, raised, ret, closes, snap, win, qres>>

\* the k-th detail write, as dispatched
DetailWrite(c, k) ==
  IF op[c] = "createOrder"
    THEN InsertDetail(db, orderid[c], k, arg[c].details[k], c)
    ELSE UpdateDetail(db, arg[c].details[k], c)

\* a detail write resolves; when it is the last one Promise.all is waiting
\* for, COMMIT is dispatched
DetailResolves(c, k) ==
  /\ k \in pend[c]
  /\ db' = DetailWrite(c, k)
  /\ pend' = [pend EXCEPT ![c] = @ \ {k}]
  /\ IF pc[c] = "DETAILS" /\ pend[c] = {k}
       THEN /\ pc' = [pc EXCEPT ![c] = "COMMIT"]
            /\ issued' = [issued EXCEPT ![c] = Append(@, "COMMIT")]
       ELSE UNCHANGED <<pc, issued>>
  /\ Noted("WRITE")
  /\ UNCHANGED <<txn, lastID, op, arg, orderid, err, raised, ret, closes, snap, qres>>

\* a detail write rejects; the first rejection rejects Promise.all, later
\* ones go unobserved
DetailRejects(c, k) ==
  /\ k \in pend[c]
  /\ pend' = [pend EXCEPT ![c] = @ \ {k}]
  /\ IF pc[c] = "DETAILS"
       THEN Catch(c, "detail write " \o ToString(k) \o " rejected")
       ELSE UNCHANGED <<err, pc, issued>>
  /\ UNCHANGED <<db, txn, lastID, op, arg, orderid, raised, ret, closes, snap, win, qres>>

\* createOrder: return { id: orderid }; updateOrder: return { id, ...data }
ReturnValue(c) ==
  IF op[c] = "createOrder"
    THEN [id |-> orderid[c]]
    ELSE Spread([id |-> arg[c].id], arg[c].data)

\* COMMIT resolves: the call returns
CommitResolves(c) ==
  /\ pc[c] = "COMMIT"
  /\ txn.open
  /\ txn' = NoTxn
  /\ closes' = [closes EXCEPT ![c] = @ + 1]
  /\ ret' = [ret EXCEPT ![c] = <<ReturnValue(c)>>]
  /\ pc' = [pc EXCEPT ![c] = "returned"]
  /\ UNCHANGED <<db, lastID, op, arg, pend, orderid, err, raised, issued, snap, win, qres>>

\* COMMIT rejects
CommitRejects(c) ==
  /\ pc[c] = "COMMIT"
  /\ Catch(c, "COMMIT rejected")
  /\ UNCHANGED <<db, txn, lastID, op, arg, pend, orderid, raised, ret, closes, snap, win, qres>>

\* ROLLBACK resolves: throw e
RollbackResolves(c) ==
  /\ pc[c] = "ROLLBACK"
  /\ txn.open
  /\ db' = txn.saved
  /\ txn' = NoTxn
  /\ closes' = [closes EXCEPT ![c] = @ + 1]
  /\ raised' = [raised EXCEPT ![c] = err[c]]
  /\ pc' = [pc EXCEPT ![c] = "raised"]
  /\ Noted("ROLLBACK")
  /\ UNCHANGED <<lastID, op, arg, pend, orderid, err, ret, issued, snap, qres>>

\* ROLLBACK rejects: the await in the catch block throws, `throw e' is not reached
RollbackRejects(c) ==
  /\ pc[c] = "ROLLBACK"
  /\ raised' = [raised EXCEPT ![c] = "ROLLBACK rejected"]
  /\ pc' = [pc EXCEPT ![c] = "raised"]
  /\ UNCHANGED <<db, txn, lastID, op, arg, pend, orderid, err, ret, closes, issued, snap, win, qres>>

\* deleteOrder's DELETE resolves
DeleteResolves(c) ==
  /\ pc[c] = "DELETE"
  /\ db' = DeleteOrderStmt(db, arg[c].id)
  /\ ret' = [ret EXCEPT ![c] =
               <<[changes |-> Cardinality({r \in db.orders : r.id = arg[c].id})]>>]
  /\ pc' = [pc EXCEPT ![c] = "returned"]
  /\ Noted("DELETE")
  /\ UNCHANGED <<txn, lastID, op, arg, pend, orderid, err, raised, closes, issued, snap, qres>>

\* deleteOrder's DELETE rejects
DeleteRejects(c) ==
  /\ pc[c] = "DELETE"
  /\ err' = [err EXCEPT ![c] = "DELETE rejected"]
  /\ raised' = [raised EXCEPT ![c] = "DELETE rejected"]
  /\ pc' = [pc EXCEPT ![c] = "raised"]
  /\ UNCHANGED <<db, txn, lastID, op, arg, pend, orderid, ret, closes, issued, snap, win, qres>>

\* let order = await getOrder(id); getOrderDetails' query is dispatched
GetOrderDone(c) ==
  /\ pc[c] = "getOrder"
  /\ ret' = [ret EXCEPT ![c] = <<getOrder(db, arg[c].id)>>]
  /\ snap' = [snap EXCEPT ![c] = db]
  /\ pc' = [pc EXCEPT ![c] = "getOrderDetails"]
  /\ issued' = [issued EXCEPT ![c] = Append(@, "getOrderDetails")]
  /\ UNCHANGED <<db, txn, lastID, op, arg, pend, orderid, err, raised, closes, win, qres>>

\* (mutation of FetchPair: the pair returned the other way round)
FetchPair_swapped(order, items) == <<items, order>>

\* return [order, items]
FetchPair(order, items) == <<order, items>>

\* let items = await getOrderDetails(id); return [order, items]
GetOrderDetailsDone(c) ==
  /\ pc[c] = "getOrderDetails"
  /\ ret' = [ret EXCEPT ![c] = FetchPair(ret[c][1], getOrderDetails(db, arg[c].id))]
  /\ pc' = [pc EXCEPT ![c] = "returned"]
  /\ UNCHANGED <<db, txn, lastID, op, arg, pend, orderid, err, raised, closes, issued, snap, win, qres>>

Next ==
  \E c \in Calls :
    \/ CallCreateOrder(c)
    \/ CallUpdateOrder(c)
    \/ CallDeleteOrder(c)
    \/ CallGetOrderWithDetails(c)
    \/ BeginResolves(c)
    \/ BeginRejects(c)
    \/ InsertHeaderResolves(c)
    \/ InsertHeaderNoId(c)
    \/ UpdateHeaderResolves(c)
    \/ HeaderRejects(c)
    \/ \E k \in 1..(MaxDetails + 1) : DetailResolves(c, k)
    \/ \E k \in 1..(MaxDetails + 1) : DetailRejects(c, k)
    \/ CommitResolves(c)
    \/ CommitRejects(c)
    \/ RollbackResolves(c)
    \/ RollbackRejects(c)
    \/ DeleteResolves(c)
    \/ DeleteRejects(c)
    \/ GetOrderDone(c)
    \/ GetOrderDetailsDone(c)

Spec == Init /\ [][Next]_vars

-----------------------------------------------------------------------------
(* Properties of the transactional calls *)

TxnCalls == {c \in Calls : op[c] \in {"createOrder", "updateOrder"}}

InsertionError == "Order insertion did not return an id"

\* The rows of d that call c's writes produced
WritesBy(c, d) ==
  {r \in d.orders : r.by = c} \cup {r \in Range(d.details) : r.by = c}

\* C1: failure atomicity.  Once a createOrder / updateOrder call has raised
\* after its ROLLBACK was carried out, none of the rows the call wrote is
\* visible through the handle, the detail writes that were still pending
\* when the first one rejected included.
C1_FailureAtomicity ==
  \A c \in TxnCalls :
    (pc[c] = "raised" /\ closes[c] = 1) => WritesBy(c, db) = {}

\* C2: the transaction is never left open.  A call that fails after BEGIN
\* has issued a ROLLBACK after the failure and raises the original error;
\* a call that has terminated, by return or by raise, has closed the
\* transaction its BEGIN opened with exactly one COMMIT or ROLLBACK, and the
\* handle holds no transaction of that call.
C2_RollbackThenRethrow ==
  \A c \in TxnCalls :
    /\ (pc[c] = "raised" /\ err[c] # "BEGIN rejected") =>
          /\ issued[c][Len(issued[c])] = "ROLLBACK"
          /\ raised[c] = err[c]
    /\ (pc[c] \in {"returned", "raised"} /\ err[c] # "BEGIN rejected") =>
          /\ closes[c] = 1
          /\ ~(txn.open /\ txn.owner = c)

\* C3: isolation of two createOrder / updateOrder calls interleaved on the
\* shared handle.  A call that returns has all its writes committed, and no
\* call's COMMIT commits, nor its ROLLBACK undoes, a write of the other call.
C3_Isolation ==
  [][\A c \in TxnCalls :
       /\ (pc[c] = "COMMIT" /\ pc'[c] = "returned") =>
             /\ WritesBy(c, db') \subseteq WritesBy(c, Committed')
             /\ \A d \in TxnCalls \ {c} :
                   WritesBy(d, Committed') \subseteq WritesBy(d, Committed)
       /\ (pc[c] = "ROLLBACK" /\ pc'[c] = "raised") =>
             \A d \in TxnCalls \ {c} : WritesBy(d, db) \subseteq WritesBy(d, db')]_vars

\* C4: when createOrder's header insert reports no generated id, the call
\* fails with InsertionError and has issued no detail insert.
C4_InsertionErrorBeforeDetails ==
  \A c \in Calls :
    (op[c] = "createOrder" /\ err[c] = InsertionError) =>
       /\ "DETAIL" \notin Range(issued[c])
       /\ pc[c] # "returned"
       /\ pc[c] = "raised" => raised[c] = InsertionError

\* The part of C4 that does not pass through the catch block's ROLLBACK:
\* InsertionError is thrown before any detail insert is dispatched, and the
\* call never returns a value.
C4_NoDetailIssued ==
  \A c \in Calls :
    (op[c] = "createOrder" /\ err[c] = InsertionError) =>
       /\ "DETAIL" \notin Range(issued[c])
       /\ pend[c] = {}
       /\ pc[c] \in {"ROLLBACK", "raised"}

\* C5: create-then-fetch.  A createOrder call with N detail entries that has
\* returned has returned {id: orderid}, and getOrderDetails(orderid) yields
\* exactly N rows, with ids "<orderid>/1" .. "<orderid>/N", the row
\* "<orderid>/k" carrying the values of the k-th entry, in whatever order
\* the inserts completed.
C5_CreateThenFetch ==
  \A c \in Calls :
    (op[c] = "createOrder" /\ pc[c] = "returned") =>
       LET n    == Len(arg[c].details)
           rows == getOrderDetails(db, orderid[c])
           kept == SelectSeq(db.details, LAMBDA r : r.orderid = orderid[c])
       IN  /\ ret[c] = <<[id |-> orderid[c]]>>
           /\ Len(rows) = n
           /\ \A k \in 1..n :
                 \E i \in 1..n :
                   /\ rows[i].id = ToString(orderid[c]) \o "/" \o ToString(k)
                   /\ rows[i].unitprice = arg[c].details[k].unitprice
                   /\ rows[i].quantity = arg[c].details[k].quantity
                   /\ rows[i].discount = arg[c].details[k].discount
                   /\ kept[i].productid = arg[c].details[k].productid

\* A createOrder call has returned with all its entries stored, the second
\* insert having completed before the first.
C5_Witness ==
  \E c \in Calls :
    /\ op[c] = "createOrder" /\ pc[c] = "returned"
    /\ Len(arg[c].details) = 2
    /\ Len(getOrderDetails(db, orderid[c])) = 2
    /\ getOrderDetails(db, orderid[c])[1].id = ToString(orderid[c]) \o "/2"

\* C6: deleteOrder is a non-cascading delete.  The step in which its DELETE
\* resolves leaves getOrder(id) without a result and every OrderDetail row as
\* it was, so getOrderDetails(id) returns what it returned before.
C6_DeleteThenFetch ==
  [][\A c \in Calls :
       (pc[c] = "DELETE" /\ pc'[c] = "returned") =>
          /\ getOrder(db', arg[c].id) = <<>>
          /\ getOrderDetails(db', arg[c].id) = getOrderDetails(db, arg[c].id)
          /\ db'.details = db.details]_vars

\* A deleteOrder call has removed an existing order whose line items remain.
C6_Witness ==
  \E c \in Calls :
    /\ op[c] = "deleteOrder" /\ pc[c] = "returned"
    /\ ret[c] = <<[changes |-> 1]>>
    /\ getOrder(db, arg[c].id) = <<>>
    /\ Len(getOrderDetails(db, arg[c].id)) = 2

FetchAt(d, id) == <<getOrder(d, id), getOrderDetails(d, id)>>

Fetched == {c \in Calls : op[c] = "getOrderWithDetails" /\ pc[c] = "returned"}

\* C10 as stated for deleteOrder: a deleteOrder(id) that runs between the
\* two queries makes the returned pair one that no single state of the
\* tables produces.
C10_DeleteBetweenTearsPair ==
  \A c \in Fetched :
    "DELETE" \in win[c] => ret[c] # FetchAt(snap[c], arg[c].id)

\* C10 as amended: when nothing, or only deleteOrder, ran between the two
\* queries, the returned pair is (getOrder(id), getOrderDetails(id)) of the
\* tables as the first query found them.
C10_PairOfOneState ==
  \A c \in Fetched :
    win[c] \subseteq {"DELETE"} => ret[c] = FetchAt(snap[c], arg[c].id)

\* A getOrderWithDetails call has returned an order whose subtotal is not
\* the sum over the items returned with it: the pair of no single state.
C10_Witness ==
  \E c \in Fetched :
    /\ ret[c][1] # <<>>
    /\ ret[c][2] # <<>>
    /\ ret[c][1][1].subtotal #
         << SumSeq([i \in DOMAIN ret[c][2] |-> LineTotal(ret[c][2][i])]) >>

-----------------------------------------------------------------------------
(* The queries on their own: the tables are drawn at the start and stay as *)
(* they are; a listing is read page after page, or one order is read.      *)

\* Per order id: no order (with or without an orphaned line item), or an
\* order of some customer with 0..MaxDetails line items.
Shapes ==
  [present : {FALSE}, cust : {NULL}, n : 0..1]
    \cup [present : {TRUE}, cust : {"ALFKI", "BONAP"}, n : 0..MaxDetails]

RECURSIVE TablesOf(_, _)
TablesOf(shape, id) ==
  IF id = 0 THEN EmptyDb
  ELSE LET before == TablesOf(shape, id - 1)
           sh     == shape[id]
           withOrder ==
             IF sh.present
               THEN InsertOrder(before, id,
                      [employeeid |-> "E1", customerid |-> sh.cust, shipcity |-> "Kaunas"],
                      "init")
               ELSE before
       IN  [withOrder EXCEPT !.details =
              @ \o [k \in 1..sh.n |->
                      [ id        |-> DetailId(id, k),
                        orderid   |-> id,
                        productid |-> DetailInput(k).productid,
                        unitprice |-> DetailInput(k).unitprice,
                        quantity  |-> DetailInput(k).quantity,
                        discount  |-> DetailInput(k).discount,
                        by        |-> "init" ]]]

\* The options a caller passes: all four, or page alone, or none.
OptInputs ==
  [page : 1..MaxPage, perPage : 1..MaxPerPage,
   sort : {"id", "customerid"}, order : {"asc", "desc"}]
    \cup [page : 1..MaxPage]
    \cup {<<>>}

InitQuery ==
  /\ \E shape \in [1..MaxRows -> Shapes] : db = TablesOf(shape, MaxRows)
  /\ txn = NoTxn
  /\ lastID = MaxRows
  /\ op = [c \in Calls |-> "none"]
  /\ arg = [c \in Calls |-> NoArg]
  /\ pc = [c \in Calls |-> "idle"]
  /\ pend = [c \in Calls |-> {}]
  /\ orderid = [c \in Calls |-> 0]
  /\ err = [c \in Calls |-> "none"]
  /\ raised = [c \in Calls |-> "none"]
  /\ ret = [c \in Calls |-> <<>>]
  /\ closes = [c \in Calls |-> 0]
  /\ issued = [c \in Calls |-> <<>>]
  /\ snap = [c \in Calls |-> EmptyDb]
  /\ win = [c \in Calls |-> {}]
  /\ qres = [fn |-> "none"]

\* getAllOrders(opts, customerId)
QueryGetAllOrders ==
  /\ qres.fn = "none"
  /\ \E opts \in OptInputs, customerId \in {NULL, "ALFKI"} :
       qres' = [fn |-> "getAllOrders", opts |-> opts, customerId |-> customerId,
                rows |-> getAllOrders(db, opts, customerId)]
  /\ UNCHANGED <<db, txn, lastID, callVars>>

\* getAllOrders again, for the page after the one just read
QueryNextPage ==
  /\ qres.fn = "getAllOrders"
  /\ LET page == Spread(DEFAULT_ORDER_COLLECTION_OPTIONS, qres.opts).page
          opts == Spread(qres.opts, [page |-> page + 1])
     IN  /\ page < MaxPage
         /\ qres' = [fn |-> "getAllOrders", opts |-> opts, customerId |-> qres.customerId,
                      rows |-> getAllOrders(db, opts, qres.customerId)]
  /\ UNCHANGED <<db, txn, lastID, callVars>>

\* getOrder(id)
QueryGetOrder ==
  /\ qres.fn = "none"
  /\ \E id \in 1..MaxRows :
       qres' = [fn |-> "getOrder", id |-> id, rows |-> getOrder(db, id)]
  /\ UNCHANGED <<db, txn, lastID, callVars>>

NextQuery == QueryGetAllOrders \/ QueryNextPage \/ QueryGetOrder

SpecQuery == InitQuery /\ [][NextQuery]_vars

Min(a, b) == IF a < b THEN a ELSE b

\* The listing a getAllOrders call pages through, and its effective options
ListedBy(q) ==
  LET o == Spread(DEFAULT_ORDER_COLLECTION_OPTIONS, q.opts)
  IN  Listing(db, o.sort, o.order, q.customerId)

PageOf(q) == Spread(DEFAULT_ORDER_COLLECTION_OPTIONS, q.opts).page

PerPageOf(q) == Spread(DEFAULT_ORDER_COLLECTION_OPTIONS, q.opts).perPage

\* The rows of a getAllOrders call are the rows at positions
\* (page-1)*perPage+1 .. page*perPage of the listing, as far as it goes.
PagePositions ==
  qres.fn = "getAllOrders" =>
    LET full  == ListedBy(qres)
        first == (PageOf(qres) - 1) * PerPageOf(qres) + 1
        last  == Min(PageOf(qres) * PerPageOf(qres), Len(full))
    IN  /\ Len(qres.rows) <= PerPageOf(qres)
        /\ Len(qres.rows) = (IF last < first THEN 0 ELSE last - first + 1)
        /\ \A i \in 1..Len(qres.rows) : qres.rows[i] = full[first + i - 1]
        /\ \A i, j \in 1..Len(full) :
              i < j => ~Precedes(full[j], full[i],
                                 Spread(DEFAULT_ORDER_COLLECTION_OPTIONS, qres.opts).sort,
                                 Spread(DEFAULT_ORDER_COLLECTION_OPTIONS, qres.opts).order)

\* Page p and page p+1 of one listing share no row and together are the
\* stretch of the listing from the first row of page p on.
ConsecutivePages ==
  (qres.fn = "getAllOrders" /\ qres'.fn = "getAllOrders") =>
    LET full  == ListedBy(qres)
        first == (PageOf(qres) - 1) * PerPageOf(qres) + 1
        both  == qres.rows \o qres'.rows
    IN  /\ PageOf(qres') = PageOf(qres) + 1
        /\ {r.id : r \in Range(qres.rows)} \cap {r.id : r \in Range(qres'.rows)} = {}
        /\ \A i \in 1..Len(both) : both[i] = full[first + i - 1]
        /\ (qres'.rows # <<>>) => Len(qres.rows) = PerPageOf(qres)

RECURSIVE SumOver(_, _)
SumOver(S, f) ==
  IF S = {} THEN 0
  ELSE LET x == CHOOSE y \in S : TRUE IN f[x] + SumOver(S \ {x}, f)

\* C9: subtotal.  getOrder(id) of an existing order returns one row whose
\* subtotal is the sum of unitprice * quantity * (1 - discount) over exactly
\* the OrderDetail rows of that order, and NULL when it has none; of a
\* missing order it returns nothing; no stored row has a subtotal.
C9_Subtotal ==
  /\ \A r \in db.orders : "subtotal" \notin DOMAIN r
  /\ qres.fn = "getOrder" =>
       LET mine == {i \in DOMAIN db.details : db.details[i].orderid = qres.id}
           line == [i \in mine |->
                      db.details[i].unitprice * db.details[i].quantity
                        * (100 - db.details[i].discount)]
       IN  IF \A o \in db.orders : o.id # qres.id
             THEN qres.rows = <<>>
             ELSE /\ Len(qres.rows) = 1
                  /\ qres.rows[1].id = qres.id
                  /\ qres.rows[1].subtotal =
                        (IF mine = {} THEN <<>> ELSE <<SumOver(mine, line)>>)

\* getOrder has returned subtotal 23 for an order with the line items
\* (10, 2, 0.1) and (5, 1, 0), while other orders have line items too.
C9_Witness ==
  /\ qres.fn = "getOrder"
  /\ qres.rows # <<>>
  /\ qres.rows[1].subtotal = <<2300>>
  /\ \E i \in DOMAIN db.details : db.details[i].orderid # qres.id

====
